---- MODULE Spec2Model ----
(***************************************************************************)
(* muhkeat: among the distinct words of a corpus, find the pairs of words  *)
(* whose combined set of distinct characters is largest.                   *)
(*                                                                         *)
(* A rune is its code point (an integer).  A Word is a sequence of runes.  *)
(* A WordMask (uint64) is modelled as the set of its set bit positions, a  *)
(* subset of 0..63: OR is set union; the arithmetic of popcount is carried *)
(* out modulo 2^64.  A WordMaskWeight (uint8) is an integer in 0..255.     *)
(***************************************************************************)
EXTENDS Integers, Sequences, FiniteSets, TLC

\* type WordMask uint64
MaskWidth == 64

\* type WordMaskWeight uint8
WeightWidth == 8

\* The corpus holds at most MaxWords distinct words.
MaxWords == 4

\* Runes of the short words, and the lengths of the short words.
Alphabet == {1, 2}
Lengths == {0, 1, 2}

VARIABLES
    words,               \* the distinct words read from the file (a set)
    runeMaskMap,         \* rune -> WordMask
    wordsByMasks,        \* WordMask -> sequence of words
    wordMasksPerWeight,  \* WordMaskWeight -> sequence of WordMasks
    pc,                  \* position in main
    topWeight, topPairs, checkedMasks,   \* locals of findTopWeightAndPairs
    iRest, iWeight, iIdx, iMask,         \* outer range: classes left, class, index, mask
    jRest, jWeight, jIdx,                \* inner range: classes left, class, index
    refWeight, refPairs, \* the same search with the pruning check removed
    evaluated,           \* sequence of the pairs <<iMask, jMask>> whose union was weighed
    wordPairs,           \* result of findWordPairsByMasks
    wm, wmWeight, wmPc   \* a mask, its weight, and the position of the weighing

vars == <<words, runeMaskMap, wordsByMasks, wordMasksPerWeight, pc,
          topWeight, topPairs, checkedMasks, iRest, iWeight, iIdx, iMask,
          jRest, jWeight, jIdx, refWeight, refPairs, evaluated, wordPairs,
          wm, wmWeight, wmPc>>

indexVars == <<words, runeMaskMap, wordsByMasks, wordMasksPerWeight>>
searchVars == <<topWeight, topPairs, checkedMasks, iRest, iWeight, iIdx, iMask,
                jRest, jWeight, jIdx, refWeight, refPairs, evaluated>>
weighVars == <<wm, wmWeight, wmPc>>

---------------------------------------------------------------------------
(* uint64 arithmetic.  A mask is held as its set of bit positions; for   *)
(* + - >> & it is converted to its value, written in NumLimbs digits of    *)
(* base 2^16, least significant first.                                     *)

Bits == 0 .. (MaskWidth - 1)

\* 1 << WordMask(i): a shift count of MaskWidth or more yields 0
ShiftLeftOne(i) == IF i \in Bits THEN {i} ELSE {}

LimbBase == 2 ^ 16
NumLimbs == MaskWidth \div 16

RECURSIVE BitsValue(_)
BitsValue(x) ==
    IF x = {} THEN 0
    ELSE LET b == CHOOSE c \in x : TRUE IN 2 ^ b + BitsValue(x \ {b})

\* uint64(wm)
toUint64(mask) ==
    [n \in 1 .. NumLimbs |->
        BitsValue({b - 16 * (n - 1) : b \in {c \in mask : (c \div 16) + 1 = n}})]

limb(x, n) == IF n \in 1 .. NumLimbs THEN x[n] ELSE 0

\* x >> k
ShiftRight(x, k) ==
    LET q == k \div 16
        r == k % 16
    IN  [n \in 1 .. NumLimbs |->
            (limb(x, n + q) \div (2 ^ r))
                + (limb(x, n + q + 1) % (2 ^ r)) * (LimbBase \div (2 ^ r))]

RECURSIVE AndLimb(_, _)
AndLimb(a, b) ==
    IF a = 0 \/ b = 0 THEN 0
    ELSE (a % 2) * (b % 2) + 2 * AndLimb(a \div 2, b \div 2)

\* x & y
And(x, y) == [n \in 1 .. NumLimbs |-> AndLimb(x[n], y[n])]

RECURSIVE AddFrom(_, _, _, _)
AddFrom(x, y, n, carry) ==
    IF n > NumLimbs THEN <<>>
    ELSE LET s == x[n] + y[n] + carry
         IN  <<s % LimbBase>> \o AddFrom(x, y, n + 1, s \div LimbBase)

\* x + y modulo 2^64
Add(x, y) == AddFrom(x, y, 1, 0)

RECURSIVE SubFrom(_, _, _, _)
SubFrom(x, y, n, borrow) ==
    IF n > NumLimbs THEN <<>>
    ELSE LET d == x[n] - y[n] - borrow
         IN  <<d % LimbBase>> \o SubFrom(x, y, n + 1, IF d < 0 THEN 1 ELSE 0)

\* x - y modulo 2^64
Sub(x, y) == SubFrom(x, y, 1, 0)

\* 6148914691236517205 = 0x5555555555555555, 0x5555 = 21845
mask1 == [n \in 1 .. NumLimbs |-> 21845]
\* 3689348814741910323 = 0x3333333333333333, 0x3333 = 13107
mask2 == [n \in 1 .. NumLimbs |-> 13107]
\* 1085102592571150095 = 0x0F0F0F0F0F0F0F0F, 0x0F0F = 3855
mask4 == [n \in 1 .. NumLimbs |-> 3855]

\* a wider conversion than uint8: the low limb as it is
ToWeightWide(x) == x[1]

\* WordMaskWeight(x): the conversion to uint8 keeps the low 8 bits
ToWeight(x) == x[1] % (2 ^ WeightWidth)

\* popcount / WordMask.weight: the SWAR Hamming weight
popcount(wm0) ==
    LET x0 == toUint64(wm0)
        x1 == Sub(x0, And(ShiftRight(x0, 1), mask1))
        x2 == Add(And(x1, mask2), And(ShiftRight(x1, 2), mask2))
        x3 == And(Add(x2, ShiftRight(x2, 4)), mask4)
        x4 == Add(x3, ShiftRight(x3, 8))
        x5 == Add(x4, ShiftRight(x4, 16))
        x6 == Add(x5, ShiftRight(x5, 32))
    IN  ToWeight(x6)

\* WordMask.union
union(a, b) == a \cup b

\* Reference count: clear the lowest set bit until none is left.
RECURSIVE BitClearingCount(_)
BitClearingCount(x) ==
    IF x = {} THEN 0
    ELSE LET low == CHOOSE b \in x : \A c \in x : b <= c
         IN  1 + BitClearingCount(x \ {low})

---------------------------------------------------------------------------
(* The input: what ReadWordSetFromFile can hand to makeWordSet *)

\* the runes lo, lo+1, ..., lo+n-1 as one word
Span(lo, n) == [k \in 1 .. n |-> lo + k - 1]

ShortWords == UNION {[1 .. n -> Alphabet] : n \in Lengths}

\* words over more runes than a mask has bits, and words that meet them
WideWords == {Span(1, MaskWidth), <<MaskWidth + 1>>, <<1>>}

Corpora ==
    {c \in SUBSET ShortWords : Cardinality(c) <= MaxWords}
        \cup {c \in SUBSET WideWords : Cardinality(c) <= MaxWords}

Range(s) == {s[k] : k \in DOMAIN s}

\* every order in which a range over a map (or a slice filled from one) can
\* yield the elements of S
Perms(S) ==
    LET n == Cardinality(S)
    IN  {f \in [1 .. n -> S] : \A a, b \in 1 .. n : a # b => f[a] # f[b]}

RECURSIVE SortedSeq(_)
SortedSeq(S) ==
    IF S = {} THEN <<>>
    ELSE LET low == CHOOSE a \in S : \A b \in S : a <= b
         IN  <<low>> \o SortedSeq(S \ {low})

\* the ascending order of S started at each of its elements in turn
Rotations(S) ==
    LET n == Cardinality(S)
        asc == SortedSeq(S)
    IN  {[k \in 1 .. n |-> asc[((k + r - 1) % n) + 1]] : r \in 0 .. (n - 1)}

\* The orders of the runes the model follows: all of them for the runes of
\* short words, the rotations for a wide rune set.
RuneOrders(S) ==
    IF Cardinality(S) <= Cardinality(Alphabet) THEN Perms(S) ELSE Rotations(S)

---------------------------------------------------------------------------
(* Index construction: makeWordSet / NewWordSetMasks / makeWordSetMasks *)

\* wordSetRunes / wordListUniqRunes: the distinct runes of all words
wordSetRunes(ws) == UNION {Range(w) : w \in ws}

\* runeMaskMap[r] = 1 << WordMask(i), i the position of r in the range order
makeRuneMaskMap(runeOrder) ==
    [r \in Range(runeOrder) |->
        ShiftLeftOne((CHOOSE k \in DOMAIN runeOrder : runeOrder[k] = r) - 1)]

\* a missing key reads as the zero WordMask
lookupRune(rmm, r) == IF r \in DOMAIN rmm THEN rmm[r] ELSE {}

RECURSIVE makeWordMaskFrom(_, _, _, _)
makeWordMaskFrom(word, rmm, k, mask) ==
    IF k > Len(word) THEN mask
    ELSE makeWordMaskFrom(word, rmm, k + 1, mask \cup lookupRune(rmm, word[k]))

\* variant: the loop starts at the second rune
makeWordMaskSkipFirst(word, rmm) == makeWordMaskFrom(word, rmm, 2, {})

\* Word.makeWordMask / Word.mask: OR of the bits of the word's runes
makeWordMask(word, rmm) == makeWordMaskFrom(word, rmm, 1, {})

\* variant: an existing list is replaced by the new element
appendAtReplace(m, k, v) ==
    IF k \in DOMAIN m
    THEN [m EXCEPT ![k] = <<v>>]
    ELSE m @@ (k :> <<v>>)

\* append v to the list under key k, creating the list when k is new
appendAt(m, k, v) ==
    IF k \in DOMAIN m
    THEN [m EXCEPT ![k] = Append(@, v)]
    ELSE m @@ (k :> <<v>>)

RECURSIVE groupWordsFrom(_, _, _, _)
groupWordsFrom(wordOrder, rmm, k, byMasks) ==
    IF k > Len(wordOrder) THEN byMasks
    ELSE groupWordsFrom(wordOrder, rmm, k + 1,
             appendAt(byMasks, makeWordMask(wordOrder[k], rmm), wordOrder[k]))

\* wordsByMasks: the words grouped by mask, in insertion order
groupWords(wordOrder, rmm) == groupWordsFrom(wordOrder, rmm, 1, <<>>)

RECURSIVE groupMasksFrom(_, _, _)
groupMasksFrom(maskOrder, k, perWeight) ==
    IF k > Len(maskOrder) THEN perWeight
    ELSE groupMasksFrom(maskOrder, k + 1,
             appendAt(perWeight, popcount(maskOrder[k]), maskOrder[k]))

\* wordMasksPerWeight: the masks grouped by popcount, in range order
groupMasks(maskOrder) == groupMasksFrom(maskOrder, 1, <<>>)

makeWordSet ==
    /\ pc = "input"
    /\ \E runeOrder \in RuneOrders(wordSetRunes(words)), wordOrder \in Perms(words) :
         LET rmm == makeRuneMaskMap(runeOrder)
             byMasks == groupWords(wordOrder, rmm)
         IN  \E maskOrder \in Perms(DOMAIN byMasks) :
               /\ runeMaskMap' = rmm
               /\ wordsByMasks' = byMasks
               /\ wordMasksPerWeight' = groupMasks(maskOrder)
    /\ pc' = "indexed"
    /\ UNCHANGED <<words, wordPairs>>
    /\ UNCHANGED searchVars
    /\ UNCHANGED weighVars

---------------------------------------------------------------------------
(* The search: findTopWeightAndPairs / topPairsAndWeight /                 *)
(* findTopWeightAndMasks.  A range over the weight-class map visits the    *)
(* classes in any order: iRest and jRest hold the classes not yet visited. *)

\* iWeight + jWeight in uint8
addWeights(a, b) == (a + b) % (2 ^ WeightWidth)

\* variants of the pruning check: the outer weight alone, and <= for <
cannotWinOuterOnly(iW, jW, top) == iW < top
cannotWinOrTie(iW, jW, top) == addWeights(iW, jW) <= top

\* the pruning check: if iWeight + jWeight < topWeight { continue }
cannotWin(iW, jW, top) == addWeights(iW, jW) < top

\* variant: the mask is not recorded
markCheckedNot(checked, mask) == checked

\* checkedMasks[iMask] = struct{}{}
markChecked(checked, mask) == checked \cup {mask}

\* variant: a heavier pair does not discard the pairs recorded so far
weighPairKeep(top, pairs, iM, jM) ==
    LET pairWeight == popcount(union(iM, jM))
        top1 == IF pairWeight > top THEN pairWeight ELSE top
    IN  [topWeight |-> top1,
         topPairs |-> IF pairWeight = top1 THEN Append(pairs, <<iM, jM>>) ELSE pairs]

\* variant: a pair as heavy as the best also discards the pairs recorded so far
weighPairDropTies(top, pairs, iM, jM) ==
    LET pairWeight == popcount(union(iM, jM))
        top1 == IF pairWeight > top THEN pairWeight ELSE top
        pairs1 == IF pairWeight >= top THEN <<>> ELSE pairs
    IN  [topWeight |-> top1,
         topPairs |-> IF pairWeight = top1 THEN Append(pairs1, <<iM, jM>>) ELSE pairs1]

\* the body run for an unchecked jMask: weigh the union, keep the best pairs
weighPair(top, pairs, iM, jM) ==
    LET pairWeight == popcount(union(iM, jM))
        top1 == IF pairWeight > top THEN pairWeight ELSE top
        pairs1 == IF pairWeight > top THEN <<>> ELSE pairs
    IN  [topWeight |-> top1,
         topPairs |-> IF pairWeight = top1 THEN Append(pairs1, <<iM, jM>>) ELSE pairs1]

\* the inner loop body for one jMask
innerBody(acc, iM, jM, checked) ==
    IF jM \in checked THEN acc ELSE weighPair(acc.topWeight, acc.topPairs, iM, jM)

RECURSIVE innerLoopFrom(_, _, _, _, _)
innerLoopFrom(acc, iM, jMasks, k, checked) ==
    IF k > Len(jMasks) THEN acc
    ELSE innerLoopFrom(innerBody(acc, iM, jMasks[k], checked), iM, jMasks, k + 1, checked)

\* entry: topWeight := 0, topPairs := nil, checkedMasks := {}, outer range starts
findTopWeightAndPairs ==
    /\ pc = "indexed"
    /\ topWeight' = 0
    /\ topPairs' = <<>>
    /\ checkedMasks' = {}
    /\ iRest' = DOMAIN wordMasksPerWeight
    /\ refWeight' = 0
    /\ refPairs' = <<>>
    /\ evaluated' = <<>>
    /\ pc' = "outerClass"
    /\ UNCHANGED <<iWeight, iIdx, iMask, jRest, jWeight, jIdx, wordPairs>>
    /\ UNCHANGED indexVars
    /\ UNCHANGED weighVars

\* for iWeight, iMasks := range wordMasksPerWeight; the range's end returns
outerClass ==
    /\ pc = "outerClass"
    /\ IF iRest = {}
       THEN /\ pc' = "found"
            /\ UNCHANGED <<iRest, iWeight, iIdx>>
       ELSE \E w \in iRest :
              /\ iWeight' = w
              /\ iRest' = iRest \ {w}
              /\ iIdx' = 0
              /\ pc' = "outerMask"
    /\ UNCHANGED <<topWeight, topPairs, checkedMasks, iMask, jRest, jWeight, jIdx,
                   refWeight, refPairs, evaluated, wordPairs>>
    /\ UNCHANGED indexVars
    /\ UNCHANGED weighVars

\* for _, iMask := range iMasks: mark iMask checked, start the inner range
outerMask ==
    /\ pc = "outerMask"
    /\ IF iIdx = Len(wordMasksPerWeight[iWeight])
       THEN /\ pc' = "outerClass"
            /\ iWeight' = 0
            /\ iIdx' = 0
            /\ iMask' = {}
            /\ UNCHANGED <<checkedMasks, jRest>>
       ELSE /\ iIdx' = iIdx + 1
            /\ iMask' = wordMasksPerWeight[iWeight][iIdx + 1]
            /\ checkedMasks' = markChecked(checkedMasks, iMask')
            /\ jRest' = DOMAIN wordMasksPerWeight
            /\ pc' = "innerClass"
            /\ UNCHANGED iWeight
    /\ UNCHANGED <<topWeight, topPairs, iRest, jWeight, jIdx,
                   refWeight, refPairs, evaluated, wordPairs>>
    /\ UNCHANGED indexVars
    /\ UNCHANGED weighVars

\* for jWeight, jMasks := range wordMasksPerWeight, with the pruning check.
\* The search without the check runs the inner loop over a pruned class.
innerClass ==
    /\ pc = "innerClass"
    /\ IF jRest = {}
       THEN /\ pc' = "outerMask"
            /\ UNCHANGED <<jRest, jWeight, jIdx, refWeight, refPairs>>
       ELSE \E w \in jRest :
              /\ jRest' = jRest \ {w}
              /\ IF cannotWin(iWeight, w, topWeight)
                 THEN LET ref == innerLoopFrom(
                                     [topWeight |-> refWeight, topPairs |-> refPairs],
                                     iMask, wordMasksPerWeight[w], 1, checkedMasks)
                      IN  /\ refWeight' = ref.topWeight
                          /\ refPairs' = ref.topPairs
                          /\ pc' = "innerClass"
                          /\ UNCHANGED <<jWeight, jIdx>>
                 ELSE /\ jWeight' = w
                      /\ jIdx' = 0
                      /\ pc' = "innerMask"
                      /\ UNCHANGED <<refWeight, refPairs>>
    /\ UNCHANGED <<topWeight, topPairs, checkedMasks, iRest, iWeight, iIdx, iMask,
                   evaluated, wordPairs>>
    /\ UNCHANGED indexVars
    /\ UNCHANGED weighVars

\* for _, jMask := range jMasks: skip a checked mask, weigh the others
innerMask ==
    /\ pc = "innerMask"
    /\ IF jIdx = Len(wordMasksPerWeight[jWeight])
       THEN /\ pc' = "innerClass"
            /\ jWeight' = 0
            /\ jIdx' = 0
            /\ UNCHANGED <<topWeight, topPairs, refWeight, refPairs, evaluated>>
       ELSE LET jMask == wordMasksPerWeight[jWeight][jIdx + 1]
                got == innerBody([topWeight |-> topWeight, topPairs |-> topPairs],
                                 iMask, jMask, checkedMasks)
                ref == innerBody([topWeight |-> refWeight, topPairs |-> refPairs],
                                 iMask, jMask, checkedMasks)
            IN  /\ jIdx' = jIdx + 1
                /\ topWeight' = got.topWeight
                /\ topPairs' = got.topPairs
                /\ refWeight' = ref.topWeight
                /\ refPairs' = ref.topPairs
                /\ evaluated' = IF jMask \in checkedMasks THEN evaluated
                                ELSE Append(evaluated, <<iMask, jMask>>)
                /\ UNCHANGED <<pc, jWeight>>
    /\ UNCHANGED <<checkedMasks, iRest, iWeight, iIdx, iMask, jRest, wordPairs>>
    /\ UNCHANGED indexVars
    /\ UNCHANGED weighVars

---------------------------------------------------------------------------
(* The result expander: findWordPairsByMasks / maskPairsToWordPairs *)

\* a missing key reads as the nil slice
lookupWords(byMasks, mask) == IF mask \in DOMAIN byMasks THEN byMasks[mask] ELSE <<>>

RECURSIVE expandFrom(_, _, _, _, _, _)
expandFrom(maskPairs, byMasks, p, a, b, out) ==
    IF p > Len(maskPairs) THEN out
    ELSE LET wordsA == lookupWords(byMasks, maskPairs[p][1])
             wordsB == lookupWords(byMasks, maskPairs[p][2])
         IN  IF a > Len(wordsA) THEN expandFrom(maskPairs, byMasks, p + 1, 1, 1, out)
             ELSE IF b > Len(wordsB) THEN expandFrom(maskPairs, byMasks, p, a + 1, 1, out)
             ELSE expandFrom(maskPairs, byMasks, p, a, b + 1,
                             Append(out, <<wordsA[a], wordsB[b]>>))

RECURSIVE expandSameFrom(_, _, _, _, _, _)
expandSameFrom(maskPairs, byMasks, p, a, b, out) ==
    IF p > Len(maskPairs) THEN out
    ELSE LET wordsA == lookupWords(byMasks, maskPairs[p][1])
             wordsB == lookupWords(byMasks, maskPairs[p][1])
         IN  IF a > Len(wordsA) THEN expandSameFrom(maskPairs, byMasks, p + 1, 1, 1, out)
             ELSE IF b > Len(wordsB) THEN expandSameFrom(maskPairs, byMasks, p, a + 1, 1, out)
             ELSE expandSameFrom(maskPairs, byMasks, p, a, b + 1,
                                 Append(out, <<wordsA[a], wordsB[b]>>))

\* variant: the inner loop ranges over the words of maskPair.a again
expandPairsSame(maskPairs, byMasks) == expandSameFrom(maskPairs, byMasks, 1, 1, 1, <<>>)

\* the three nested loops, appending WordPair{wordA, wordB}
expandPairs(maskPairs, byMasks) == expandFrom(maskPairs, byMasks, 1, 1, 1, <<>>)

findWordPairsByMasks ==
    /\ pc = "found"
    /\ wordPairs' = expandPairs(topPairs, wordsByMasks)
    /\ pc' = "expanded"
    /\ UNCHANGED indexVars
    /\ UNCHANGED searchVars
    /\ UNCHANGED weighVars

---------------------------------------------------------------------------
(* The program: main *)

Init ==
    /\ words \in Corpora
    /\ runeMaskMap = <<>>
    /\ wordsByMasks = <<>>
    /\ wordMasksPerWeight = <<>>
    /\ pc = "input"
    /\ topWeight = 0
    /\ topPairs = <<>>
    /\ checkedMasks = {}
    /\ iRest = {}
    /\ iWeight = 0
    /\ iIdx = 0
    /\ iMask = {}
    /\ jRest = {}
    /\ jWeight = 0
    /\ jIdx = 0
    /\ refWeight = 0
    /\ refPairs = <<>>
    /\ evaluated = <<>>
    /\ wordPairs = <<>>
    /\ wm = {}
    /\ wmWeight = 0
    /\ wmPc = "idle"

Next ==
    \/ makeWordSet
    \/ findTopWeightAndPairs
    \/ outerClass
    \/ outerMask
    \/ innerClass
    \/ innerMask
    \/ findWordPairsByMasks

Spec == Init /\ [][Next]_vars

---------------------------------------------------------------------------
(* Weighing masks on their own: popcount over masks of every width *)

\* the runs of consecutive set bits, the zero mask among them
SeedMasks == {lo .. hi : lo \in Bits, hi \in Bits}

\* the bit patterns of the reduction's own masks
SwarPatterns ==
    {{b \in Bits : b % 2 = 0}, {b \in Bits : b % 4 < 2}, {b \in Bits : b % 8 < 4}}

InitWeigh ==
    /\ words = {}
    /\ runeMaskMap = <<>>
    /\ wordsByMasks = <<>>
    /\ wordMasksPerWeight = <<>>
    /\ pc = "idle"
    /\ topWeight = 0
    /\ topPairs = <<>>
    /\ checkedMasks = {}
    /\ iRest = {}
    /\ iWeight = 0
    /\ iIdx = 0
    /\ iMask = {}
    /\ jRest = {}
    /\ jWeight = 0
    /\ jIdx = 0
    /\ refWeight = 0
    /\ refPairs = <<>>
    /\ evaluated = <<>>
    /\ wordPairs = <<>>
    /\ wm \in SeedMasks
    /\ wmWeight = 0
    /\ wmPc = "mask"

\* wm.union(other)
unionMask ==
    /\ wmPc = "mask"
    /\ \E other \in SwarPatterns :
         /\ ~(other \subseteq wm)
         /\ wm' = union(wm, other)
    /\ UNCHANGED <<wmWeight, wmPc, pc, wordPairs>>
    /\ UNCHANGED indexVars
    /\ UNCHANGED searchVars

\* wm.weight()
weighMask ==
    /\ wmPc = "mask"
    /\ wmWeight' = popcount(wm)
    /\ wmPc' = "weighed"
    /\ UNCHANGED <<wm, pc, wordPairs>>
    /\ UNCHANGED indexVars
    /\ UNCHANGED searchVars

NextWeigh ==
    \/ unionMask
    \/ weighMask

SpecWeigh == InitWeigh /\ [][NextWeigh]_vars

---------------------------------------------------------------------------
(* Properties *)

\* the search has returned
Returned == pc \in {"found", "expanded"}

\* the distinct masks of the mask-group index
Masks == DOMAIN wordsByMasks

\* the unordered pairs of distinct masks
MaskPairs == {p \in SUBSET Masks : Cardinality(p) = 2}

\* the number of set bits of a mask, and of the union of a pair
BitCount(mask) == Cardinality(mask)
UnionWeight(p) == Cardinality(UNION p)

unordered(pair) == {pair[1], pair[2]}

\* how often a pair's union was weighed, and how often it is in the result
TimesWeighed(p) == Cardinality({k \in DOMAIN evaluated : unordered(evaluated[k]) = p})
TimesListed(p) == Cardinality({k \in DOMAIN topPairs : unordered(topPairs[k]) = p})

\* some pair was skipped by the pruning check
SomePairPruned == \E p \in MaskPairs : TimesWeighed(p) = 0

\* the distinct runes of the corpus
NumRunes == Cardinality(wordSetRunes(words))

\* every rune has one bit of its own
SingleBits ==
    /\ \A r \in DOMAIN runeMaskMap : Cardinality(runeMaskMap[r]) = 1
    /\ \A r, q \in DOMAIN runeMaskMap : r # q => runeMaskMap[r] # runeMaskMap[q]

\* C1: with at least two distinct masks, the returned weight is the largest
\* number of set bits of a | b over the unordered pairs {a, b} of distinct masks.
C1_TopWeightIsMaximum ==
    (Returned /\ Cardinality(Masks) >= 2) =>
        /\ \E p \in MaskPairs : UnionWeight(p) = topWeight
        /\ \A p \in MaskPairs : UnionWeight(p) <= topWeight

C1_Witness ==
    /\ Returned
    /\ Cardinality(Masks) >= 3
    /\ SomePairPruned
    /\ \E p \in MaskPairs : UnionWeight(p) < topWeight

\* C2: the returned list holds every unordered pair of distinct masks whose
\* union weighs topWeight exactly once, in one orientation, and nothing else.
C2_TopPairsExact ==
    Returned =>
        /\ \A p \in MaskPairs : TimesListed(p) = (IF UnionWeight(p) = topWeight THEN 1 ELSE 0)
        /\ \A k \in DOMAIN topPairs :
             /\ unordered(topPairs[k]) \in MaskPairs
             /\ UnionWeight(unordered(topPairs[k])) = topWeight

C2_Witness ==
    /\ Returned
    /\ Len(topPairs) >= 2
    /\ \E k \in DOMAIN evaluated : UnionWeight(unordered(evaluated[k])) < topWeight

\* C3: the search with the pruning check and the search without it, run in
\* the same order, return the same weight and the same unordered pairs.
C3_PruningSound ==
    Returned =>
        /\ topWeight = refWeight
        /\ {unordered(topPairs[k]) : k \in DOMAIN topPairs}
               = {unordered(refPairs[k]) : k \in DOMAIN refPairs}
        /\ Len(topPairs) = Len(refPairs)

C3_Witness ==
    /\ Returned
    /\ SomePairPruned
    /\ Len(topPairs) >= 2

\* C4: with more distinct runes than mask bits the construction aborts: no
\* index exists then, and no rune ever has a zero or a shared mask.
C4_TooManyRunesAborts ==
    pc # "input" =>
        /\ NumRunes <= MaskWidth
        /\ SingleBits

\* C5: with fewer than two distinct masks the search returns weight 0 and no
\* pair, the expander returns no word pair; no mask is paired with itself.
C5_NoPairBelowTwoMasks ==
    /\ (Returned /\ Cardinality(Masks) < 2) => (topWeight = 0 /\ topPairs = <<>>)
    /\ (pc = "expanded" /\ Cardinality(Masks) < 2) => wordPairs = <<>>
    /\ \A k \in DOMAIN topPairs : topPairs[k][1] # topPairs[k][2]
    /\ \A k \in DOMAIN evaluated : evaluated[k][1] # evaluated[k][2]

C5_Witness ==
    /\ pc = "expanded"
    /\ Cardinality(Masks) = 1
    /\ Cardinality(words) >= 2
    /\ Masks # {{}}

\* the words of group a times the words of group b, first word slowest
productSeq(wordsA, wordsB) ==
    [n \in 1 .. (Len(wordsA) * Len(wordsB)) |->
        <<wordsA[((n - 1) \div Len(wordsB)) + 1], wordsB[((n - 1) % Len(wordsB)) + 1]>>]

RECURSIVE concatProducts(_, _)
concatProducts(maskPairs, k) ==
    IF k > Len(maskPairs) THEN <<>>
    ELSE productSeq(wordsByMasks[maskPairs[k][1]], wordsByMasks[maskPairs[k][2]])
             \o concatProducts(maskPairs, k + 1)

RECURSIVE sumProducts(_, _)
sumProducts(maskPairs, k) ==
    IF k > Len(maskPairs) THEN 0
    ELSE Len(wordsByMasks[maskPairs[k][1]]) * Len(wordsByMasks[maskPairs[k][2]])
             + sumProducts(maskPairs, k + 1)

\* C6: the expander returns the concatenation, over the winning mask pairs
\* (a, b), of group(a) x group(b): each word pair has the masks of a winning
\* pair and the top weight, and there are sum |group(a)| * |group(b)| of them.
C6_ExpanderIsProduct ==
    pc = "expanded" =>
        /\ wordPairs = concatProducts(topPairs, 1)
        /\ Len(wordPairs) = sumProducts(topPairs, 1)
        /\ \A n \in DOMAIN wordPairs :
             LET ma == makeWordMask(wordPairs[n][1], runeMaskMap)
                 mb == makeWordMask(wordPairs[n][2], runeMaskMap)
             IN  /\ \E k \in DOMAIN topPairs : topPairs[k] = <<ma, mb>>
                 /\ popcount(union(ma, mb)) = topWeight
        /\ \A k \in DOMAIN topPairs :
             \A wa \in Range(wordsByMasks[topPairs[k][1]]),
                wb \in Range(wordsByMasks[topPairs[k][2]]) :
                 \E n \in DOMAIN wordPairs : wordPairs[n] = <<wa, wb>>

C6_Witness ==
    /\ pc = "expanded"
    /\ Len(topPairs) >= 2
    /\ \E k \in DOMAIN topPairs : Len(wordsByMasks[topPairs[k][2]]) >= 2
    /\ \E k \in DOMAIN topPairs : Len(wordsByMasks[topPairs[k][1]]) >= 2

\* C7: popcount returns the number of set bits as the bit-clearing loop
\* counts them, for the zero mask and the all-ones mask too (64).
C7_PopcountIsBitCount ==
    wmPc = "weighed" =>
        /\ wmWeight = BitClearingCount(wm)
        /\ (wm = {} => wmWeight = 0)
        /\ (wm = Bits => wmWeight = MaskWidth)

C7_Witness ==
    /\ wmPc = "weighed"
    /\ wm = Bits
    /\ wmWeight = MaskWidth

\* C8: once the index is built with every rune on one bit of its own, bit i
\* of a word's mask is set iff the word contains the rune of bit i; so two
\* words have equal masks iff they have the same set of runes.
C8_MaskIsRuneSet ==
    (pc = "indexed" /\ SingleBits) =>
        /\ \A w \in words :
             LET mask == makeWordMask(w, runeMaskMap)
             IN  /\ \A i \in Bits :
                       i \in mask <=> \E r \in Range(w) : runeMaskMap[r] = {i}
                 /\ mask \in Masks
                 /\ w \in Range(wordsByMasks[mask])
        /\ \A w, v \in words :
             makeWordMask(w, runeMaskMap) = makeWordMask(v, runeMaskMap)
                 <=> Range(w) = Range(v)

C8_Witness ==
    /\ pc = "indexed"
    /\ SingleBits
    /\ \E w, v \in words : w # v /\ Range(w) = Range(v) /\ Len(w) = Len(v)
    /\ \E w, v \in words : Len(w) # Len(v) /\ Range(w) = Range(v)
    /\ \E w, v \in words : Range(w) # Range(v)

\* the pairs of words with different rune sets, and the most runes a pair has
WordPairSets == {q \in SUBSET words : Cardinality(q) = 2 /\ \E w, v \in q : Range(w) # Range(v)}
RunesOf(q) == Cardinality(wordSetRunes(q))
BestWeight == IF WordPairSets = {} THEN 0
              ELSE CHOOSE n \in {RunesOf(q) : q \in WordPairSets} :
                       \A q \in WordPairSets : RunesOf(q) <= n
BestWordPairs == {q \in WordPairSets : RunesOf(q) = BestWeight}

\* C9: the returned weight and the returned set of unordered word pairs are
\* fixed by the set of words alone, whatever the rune order, the word order
\* and the iteration orders were.
C9_ResultFixedByWords ==
    pc = "expanded" =>
        /\ topWeight = BestWeight
        /\ {unordered(wordPairs[n]) : n \in DOMAIN wordPairs} = BestWordPairs

\* C9 for the corpora whose runes fit the mask
C9_FixedWhenRunesFit ==
    (pc = "expanded" /\ NumRunes <= MaskWidth) =>
        /\ topWeight = BestWeight
        /\ {unordered(wordPairs[n]) : n \in DOMAIN wordPairs} = BestWordPairs

\* C10 as stated: every unordered pair of distinct masks has its union weight
\* computed exactly once during a run of the search.
C10_EveryPairWeighedOnce ==
    Returned => \A p \in MaskPairs : TimesWeighed(p) = 1

\* C10 amended: every unordered pair of distinct masks has its union weight
\* computed at most once, and the pairs never weighed are those the pruning
\* check skipped: the sum of their two weights is below the returned weight.
C10_PairWeighedAtMostOnce ==
    /\ \A k \in DOMAIN evaluated : unordered(evaluated[k]) \in MaskPairs
    /\ \A p \in MaskPairs : TimesWeighed(p) <= 1
    /\ Returned =>
         \A p \in MaskPairs :
             TimesWeighed(p) = 0 =>
                 \A a, b \in p : a # b => BitCount(a) + BitCount(b) < topWeight

C10_Witness ==
    /\ Returned
    /\ \E p \in MaskPairs : TimesWeighed(p) = 0
    /\ \E p \in MaskPairs : TimesWeighed(p) = 1

\* C11: once the index is built, every word is in exactly one list of
\* wordsByMasks, under its own mask, and no list is empty; every mask of
\* wordsByMasks is exactly once in exactly one list of wordMasksPerWeight,
\* under its popcount: the weight classes partition the distinct masks.
C11_IndexPartitions ==
    pc = "indexed" =>
        /\ \A w \in words :
             LET occ == {kn \in UNION {{<<key, n>> : n \in DOMAIN wordsByMasks[key]}
                                           : key \in DOMAIN wordsByMasks} :
                             wordsByMasks[kn[1]][kn[2]] = w}
             IN  /\ Cardinality(occ) = 1
                 /\ \A kn \in occ : kn[1] = makeWordMask(w, runeMaskMap)
        /\ \A key \in DOMAIN wordsByMasks :
             /\ wordsByMasks[key] # <<>>
             /\ Range(wordsByMasks[key]) \subseteq words
        /\ \A mask \in DOMAIN wordsByMasks :
             LET occ == {kn \in UNION {{<<key, n>> : n \in DOMAIN wordMasksPerWeight[key]}
                                           : key \in DOMAIN wordMasksPerWeight} :
                             wordMasksPerWeight[kn[1]][kn[2]] = mask}
             IN  /\ Cardinality(occ) = 1
                 /\ \A kn \in occ : kn[1] = popcount(mask) /\ kn[1] = BitCount(mask)
        /\ \A key \in DOMAIN wordMasksPerWeight :
             /\ wordMasksPerWeight[key] # <<>>
             /\ Range(wordMasksPerWeight[key]) \subseteq DOMAIN wordsByMasks

C11_Witness ==
    /\ pc = "indexed"
    /\ \E key \in DOMAIN wordsByMasks : Len(wordsByMasks[key]) >= 2
    /\ \E key \in DOMAIN wordMasksPerWeight : Len(wordMasksPerWeight[key]) >= 2
    /\ Cardinality(DOMAIN wordMasksPerWeight) >= 2

\* the union weights of the pairs weighed so far
WeighedSoFar == {UnionWeight(unordered(evaluated[k])) : k \in DOMAIN evaluated}

\* the largest of them, 0 if there is none
LargestSoFar ==
    IF WeighedSoFar = {} THEN 0
    ELSE CHOOSE n \in WeighedSoFar : \A o \in WeighedSoFar : o <= n

weighsTop(pair) == UnionWeight(unordered(pair)) = topWeight

\* what holds of the search's locals in every state
C12_State ==
    /\ topWeight = LargestSoFar
    /\ topPairs = SelectSeq(evaluated, weighsTop)
    /\ \A k \in DOMAIN topPairs : topPairs[k][1] \in checkedMasks

\* what holds of every step: the weight does not fall, a larger weight leaves
\* only the new pair, masks stay checked, and a pair is recorded while its
\* first mask is checked and its second is not
C12_Step ==
    /\ topWeight' >= topWeight
    /\ topWeight' > topWeight =>
           /\ Len(topPairs') = 1
           /\ topPairs'[1] = evaluated'[Len(evaluated')]
    /\ pc # "indexed" => checkedMasks \subseteq checkedMasks'
    /\ topPairs' # topPairs =>
           LET new == topPairs'[Len(topPairs')]
           IN  /\ new[1] \in checkedMasks
               /\ new[2] \notin checkedMasks'

\* C12: loop invariant of the search: topWeight never decreases and is the
\* largest union weight among the pairs weighed so far (0 if none); topPairs
\* holds exactly the pairs weighed so far whose union weighs topWeight, so a
\* larger weight discards the earlier pairs; the first mask of a recorded
\* pair was marked checked before the second.
C12_LoopInvariant == [](C12_State) /\ [][C12_Step]_vars

C12_Witness ==
    /\ pc = "innerMask"
    /\ Len(topPairs) >= 2
    /\ \E k \in DOMAIN evaluated : UnionWeight(unordered(evaluated[k])) < topWeight
    /\ \E k \in DOMAIN topPairs : topPairs[k][2] \in checkedMasks

====
